---- MODULE Spec2Model ----
(***************************************************************************)
(* Model of scripts/test-facebook-scraper.py: the per-page scrape routine  *)
(* test_scrape_facebook_page (lines 11-86) and the script's main block     *)
(* (lines 89-104).  The external collaborator get_posts is a generator     *)
(* whose behaviour is an environment choice: each time the loop asks for   *)
(* the next record it yields one, signals exhaustion, or raises.           *)
(***************************************************************************)
EXTENDS Integers, Sequences, FiniteSets, TLC

(* ---------------------------- bounds ----------------------------------- *)
\* largest post count N passed as num_posts
MaxN == 2
\* largest number of entries of test_pages
MaxPages == 2
\* largest number of records the collaborator yields in one run of the script
MaxYield == 4

(* ------------------------ program constants ---------------------------- *)
\* post.get("text", "")[:200]
TextLimit == 200

(* ------------------------ Python values -------------------------------- *)
\* A value is a tagged sequence: "absent" is a key the dict does not hold,
\* "none" is Python None, "str" a string (sequence of character codes),
\* "list" a list (sequence of element ids), "dt" an opaque timestamp.
Absent == [tag |-> "absent", val |-> <<>>]
None == [tag |-> "none", val |-> <<>>]
Str(s) == [tag |-> "str", val |-> s]
List(l) == [tag |-> "list", val |-> l]
Stamp == [tag |-> "dt", val |-> <<7>>]

Keys == {"post_id", "text", "time", "image", "images", "post_url"}

\* dict.get(key, default): the default replaces only a missing key
Get(post, key, default) == IF post[key].tag = "absent" THEN default ELSE post[key]

\* Python truthiness of a value: None, "" and [] are falsy
Truthy(v) == /\ v.tag \notin {"absent", "none"}
             /\ (v.tag \in {"str", "list"} => Len(v.val) > 0)

\* s[:n] on a string
Slice(v, n) == Str(SubSeq(v.val, 1, IF Len(v.val) < n THEN Len(v.val) ELSE n))

\* str(x): None becomes the four characters "None", a timestamp its text form
PyStr(v) == IF v.tag = "none" THEN Str(<<78, 111, 110, 101>>)
            ELSE IF v.tag = "dt" THEN Str(<<50, 48, 50, 52>> \o v.val)
            ELSE Str(v.val)

(* ------------------------ fault descriptions --------------------------- *)
\* str(e) of the exceptions the collaborator raises ("timed out", "banned")
TimeoutMsg == <<116, 105, 109, 101, 100, 32, 111, 117, 116>>
BannedMsg == <<98, 97, 110, 110, 101, 100>>
Messages == {TimeoutMsg, BannedMsg}
\* the message slot of a generator that has not raised
NoMsg == <<>>
\* str(e) of the TypeError raised by None[:200]
TypeErrorMsg == <<39, 78, 111, 110, 101, 84, 121, 112, 101, 39>>

(* ------------------------ collaborator records ------------------------- *)
LongText == [i \in 1..(TextLimit + 1) |-> 120]
ShortText == <<104, 105>>

AllAbsent == [k \in Keys |-> Absent]
\* three images, a text of 201 characters, every key set
PostMulti == [post_id |-> Str(<<49>>), text |-> Str(LongText), time |-> Stamp,
              image |-> Str(<<97>>), images |-> List(<<97, 98, 99>>),
              post_url |-> Str(<<117>>)]
\* images=["x"], nothing else
PostSingle == [AllAbsent EXCEPT !.images = List(<<120>>)]
\* images=None and an image URL
PostNoneImages == [AllAbsent EXCEPT !.images = None, !.image = Str(<<97>>),
                                    !.text = Str(ShortText)]
\* images=[] and image=None
PostEmptyImages == [AllAbsent EXCEPT !.images = List(<<>>), !.image = None]
\* the text key is set to None (the library's default for a post without text)
PostNullText == [AllAbsent EXCEPT !.text = None, !.images = List(<<97, 98>>)]

Records == {PostMulti, PostSingle, PostNoneImages, PostEmptyImages, PostNullText}

\* lines 92-94: test_pages holds the first name; the other names stand for
\* further entries of the list, so that the loop of line 98 runs more than once
PageNames == <<"PhuketTimeNews", "PageB", "PageC", "PageD">>

VARIABLES test_pages, num_posts, page_idx, all_results, pc, results,
          posts_data, gen, pulls, yielded, out, served

vars == <<test_pages, num_posts, page_idx, all_results, pc, results,
          posts_data, gen, pulls, yielded, out, served>>

(* ------------------------ output streams ------------------------------- *)
\* faulty variant: a diagnostic print without file=sys.stderr
DiagStreamStdout == "stdout"
\* print(..., file=sys.stderr) of the diagnostics
DiagStream == "stderr"
\* print(json.dumps(all_results, indent=2))
ResultStream == "stdout"

\* n lines of text, or one JSON document, written to a stream
WriteTo(o, stream, item, n) ==
    IF stream = "stdout"
    THEN [o EXCEPT !.stdout = @ \o [i \in 1..n |-> item]]
    ELSE [o EXCEPT !.stderr = @ + n]

TextLine == [kind |-> "text", doc |-> <<>>]
JsonDumps(rs) == [kind |-> "json", doc |-> rs]

(* ------------------------ test_scrape_facebook_page -------------------- *)
\* lines 25-36: the results dict every call starts from
ZeroStats == [total_posts |-> 0, posts_with_multiple_images |-> 0,
              posts_with_single_image |-> 0, posts_with_no_images |-> 0]

\* faulty variant: one results dict shared by all calls
SharedResults(page_name) ==
    IF all_results = <<>>
    THEN [success |-> FALSE, page |-> page_name, posts |-> <<>>,
          stats |-> ZeroStats, error |-> None]
    ELSE [all_results[Len(all_results)] EXCEPT !.page = page_name]

\* lines 25-36: a new dict with zeroed counters
FreshResults(page_name) ==
    [success |-> FALSE, page |-> page_name, posts |-> <<>>,
     stats |-> ZeroStats, error |-> None]

\* line 46: post.get("text", "")[:200] raises TypeError when text is None
TextRaises(post) == Get(post, "text", Str(<<>>)).tag # "str"

\* lines 44-51: the projection of one record
Project(post) ==
    [post_id |-> Get(post, "post_id", None),
     text |-> Slice(Get(post, "text", Str(<<>>)), TextLimit),
     time |-> PyStr(Get(post, "time", None)),
     image |-> Get(post, "image", None),
     images |-> Get(post, "images", None),
     post_url |-> Get(post, "post_url", None)]

\* faulty variant: the single image field is tested first
BucketImageFirst(post) ==
    LET images == Get(post, "images", None) IN
    IF Truthy(Get(post, "image", None)) THEN "posts_with_single_image"
    ELSE IF Truthy(images) /\ Len(images.val) > 1 THEN "posts_with_multiple_images"
    ELSE IF Truthy(images) /\ Len(images.val) = 1 THEN "posts_with_single_image"
    ELSE "posts_with_no_images"

\* lines 56-66: the counter a record increments (first match wins)
Bucket(post) ==
    LET images == Get(post, "images", None) IN
    IF Truthy(images) /\ Len(images.val) > 1 THEN "posts_with_multiple_images"
    ELSE IF Truthy(images) /\ Len(images.val) = 1 THEN "posts_with_single_image"
    ELSE IF Truthy(Get(post, "image", None)) THEN "posts_with_single_image"
    ELSE "posts_with_no_images"

\* lines 58, 62, 64, 66: results["stats"][bucket] += 1
Count(res, post) == [res EXCEPT !.stats[Bucket(post)] = @ + 1]

\* lines 59-60: two diagnostic lines for a multi-image post
MultiLines(post) == IF Bucket(post) = "posts_with_multiple_images" THEN 2 ELSE 0

\* faulty variant: > in place of >=
LimitOffByOne(pd, n) == Len(pd) > n
\* line 69: if len(posts_data) >= num_posts: break
LimitReached(pd, n) == Len(pd) >= n

\* lines 72-74: the success path after the loop
Finish(res, pd) ==
    [res EXCEPT !.posts = pd, !.stats.total_posts = Len(pd), !.success = TRUE]

\* faulty variant: the handler also publishes the posts collected so far
HandlerPartial(res, pd, msg) ==
    [res EXCEPT !.error = Str(msg), !.posts = pd, !.stats.total_posts = Len(pd)]
\* line 83: results["error"] = str(e); posts and total_posts are left alone
Handler(res, pd, msg) == [res EXCEPT !.error = Str(msg)]

(* ------------------------ the collaborator ----------------------------- *)
\* The generator returned by get_posts is open until it signals exhaustion
\* or raises; msg is str(e) of the exception it raised.
\* served counts the records the collaborator has yielded in this run.
OpenGen == [state |-> "open", msg |-> NoMsg]
ExhaustedGen == [state |-> "exhausted", msg |-> NoMsg]
RaisedGen(msg) == [state |-> "raised", msg |-> msg]

\* the variables of test_scrape_facebook_page while no call is active
NoFrame ==
    [results |-> [success |-> FALSE, page |-> "", posts |-> <<>>,
                  stats |-> ZeroStats, error |-> None],
     posts_data |-> <<>>,
     gen |-> OpenGen,
     pulls |-> 0,
     yielded |-> <<>>]

Init ==
    /\ num_posts \in 1..MaxN
    /\ \E p \in 1..MaxPages : test_pages = SubSeq(PageNames, 1, p)
    /\ page_idx = 0
    /\ all_results = <<>>
    /\ pc = "main"
    /\ results = NoFrame.results
    /\ posts_data = NoFrame.posts_data
    /\ gen = NoFrame.gen
    /\ pulls = NoFrame.pulls
    /\ yielded = NoFrame.yielded
    /\ out = [stdout |-> <<>>, stderr |-> 0]
    /\ served = 0

\* line 99 and lines 22-42: main calls the routine for the next page; the
\* routine prints two lines, builds results and opens the generator
CallScrape ==
    /\ pc = "main"
    /\ page_idx < Len(test_pages)
    /\ page_idx' = page_idx + 1
    /\ results' = FreshResults(test_pages[page_idx + 1])
    /\ posts_data' = <<>>
    /\ gen' = OpenGen
    /\ pulls' = 0
    /\ yielded' = <<>>
    /\ out' = WriteTo(out, DiagStream, TextLine, 2)
    /\ pc' = "loop"
    /\ UNCHANGED <<test_pages, num_posts, all_results, served>>

\* lines 76-80: the five statistics lines
StatsLines == 5

\* faulty variant: the except clause starts the scrape of the page again
RetryFault(msg, seen, g) ==
    /\ results' = FreshResults(results.page)
    /\ posts_data' = <<>>
    /\ pulls' = 0
    /\ yielded' = <<>>
    /\ gen' = g
    /\ out' = out
    /\ pc' = "loop"

\* lines 82-86: the except clause records str(e), prints one line and the
\* routine returns; seen is the sequence of records pulled so far and g the
\* generator after the pull
HandleFault(msg, seen, g) ==
    /\ results' = Handler(results, posts_data, msg)
    /\ posts_data' = posts_data
    /\ pulls' = pulls + 1
    /\ yielded' = seen
    /\ gen' = g
    /\ out' = WriteTo(out, DiagStream, TextLine, 1)
    /\ pc' = "ret"

\* lines 42-70 for one yielded record, then lines 72-80 when the loop breaks,
\* or lines 82-84 when the projection raises
LoopBody(post) ==
    /\ pc = "loop"
    /\ served < MaxYield
    /\ served' = served + 1
    /\ IF TextRaises(post)
       THEN HandleFault(TypeErrorMsg, Append(yielded, post), gen)
       ELSE LET pd == Append(posts_data, Project(post))
                counted == Count(results, post)
            IN /\ gen' = gen
               /\ pulls' = pulls + 1
               /\ yielded' = Append(yielded, post)
               /\ posts_data' = pd
               /\ IF LimitReached(pd, num_posts)
                  THEN /\ results' = Finish(counted, pd)
                       /\ out' = WriteTo(out, DiagStream, TextLine,
                                         MultiLines(post) + StatsLines)
                       /\ pc' = "ret"
                  ELSE /\ results' = counted
                       /\ out' = WriteTo(out, DiagStream, TextLine, MultiLines(post))
                       /\ pc' = "loop"
    /\ UNCHANGED <<test_pages, num_posts, page_idx, all_results>>

\* line 42 when the generator is exhausted, then lines 72-80
LoopExhausted ==
    /\ pc = "loop"
    /\ gen' = ExhaustedGen
    /\ pulls' = pulls + 1
    /\ results' = Finish(results, posts_data)
    /\ out' = WriteTo(out, DiagStream, TextLine, StatsLines)
    /\ pc' = "ret"
    /\ UNCHANGED <<test_pages, num_posts, page_idx, all_results, posts_data,
                   yielded, served>>

\* line 42 when the generator raises, then lines 82-84
LoopFault(msg) ==
    /\ pc = "loop"
    /\ HandleFault(msg, yielded, RaisedGen(msg))
    /\ UNCHANGED <<test_pages, num_posts, page_idx, all_results, served>>

\* line 86 and lines 100-101: return, append the result, print the separator;
\* the locals of the call and its generator are gone once it has returned
Return ==
    /\ pc = "ret"
    /\ all_results' = Append(all_results, results)
    /\ out' = WriteTo(out, DiagStream, TextLine, 1)
    /\ pc' = "main"
    /\ results' = NoFrame.results
    /\ posts_data' = NoFrame.posts_data
    /\ gen' = NoFrame.gen
    /\ pulls' = NoFrame.pulls
    /\ yielded' = NoFrame.yielded
    /\ UNCHANGED <<test_pages, num_posts, page_idx, served>>

\* line 104: the JSON array goes to standard output
PrintJson ==
    /\ pc = "main"
    /\ page_idx = Len(test_pages)
    /\ out' = WriteTo(out, ResultStream, JsonDumps(all_results), 1)
    /\ pc' = "exit"
    /\ UNCHANGED <<test_pages, num_posts, page_idx, all_results, results,
                   posts_data, gen, pulls, yielded, served>>

Next ==
    \/ CallScrape
    \/ \E msg \in Messages : LoopFault(msg)
    \/ LoopExhausted
    \/ \E post \in Records : LoopBody(post)
    \/ Return
    \/ PrintJson

Spec == Init /\ [][Next]_vars

\* the script is one thread that runs each statement to completion
FairSpec == Spec /\ WF_vars(Next)

TypeOK ==
    /\ pc \in {"main", "loop", "ret", "exit"}
    /\ num_posts \in 1..MaxN
    /\ page_idx \in 0..Len(test_pages)
    /\ Len(all_results) <= Len(test_pages)
    /\ pc = "loop" => gen = OpenGen

(* ------------------------ vocabulary of the properties ----------------- *)
\* the routine is about to return its result
Returning == pc = "ret"
\* the collaborator raised during this call
CollaboratorRaised == Returning /\ gen.state = "raised"
\* the collaborator raised nothing during this call
FaultFree == gen.state # "raised"
\* the collaborator's sequence ended after the records pulled, so L is known
Exhausted == gen.state = "exhausted"

BucketSum(st) == st.posts_with_multiple_images + st.posts_with_single_image
                 + st.posts_with_no_images

\* the image-count class of an emitted post, in the words of the specification
NImages(p) == IF p.images.tag = "list" THEN Len(p.images.val) ELSE 0
ClassOf(p) ==
    IF NImages(p) > 1 THEN "posts_with_multiple_images"
    ELSE IF NImages(p) = 1 \/ p.image.tag = "str" THEN "posts_with_single_image"
    ELSE "posts_with_no_images"
NumOfClass(ps, c) == Cardinality({i \in DOMAIN ps : ClassOf(ps[i]) = c})

Succeeded == Returning /\ results.success
Failed == Returning /\ ~results.success

\* C1: when the collaborator raises, before the first record or after some
\* records, the result has success=false, no posts, four zero counters and a
\* non-empty error string.
C1_FaultGivesZeroResult ==
    CollaboratorRaised =>
        /\ results.success = FALSE
        /\ results.posts = <<>>
        /\ results.stats = ZeroStats
        /\ results.error.tag = "str"
        /\ Len(results.error.val) > 0

\* C2: in every returned result the three bucket counters sum to total_posts
\* and total_posts is the length of the posts list.
C2_CountersPartitionTotal ==
    Returning =>
        /\ BucketSum(results.stats) = results.stats.total_posts
        /\ results.stats.total_posts = Len(results.posts)

\* C3: for a fault-free collaborator sequence of length L the result holds
\* min(L, N) posts and total_posts = min(L, N).  When the sequence ended, L is
\* the number of records pulled; otherwise L is at least that number.
C3_LengthIsMin ==
    (Returning /\ FaultFree) =>
        /\ results.stats.total_posts = Len(results.posts)
        /\ Exhausted => Len(results.posts) = Len(yielded)
        /\ ~Exhausted => /\ Len(yielded) <= Len(results.posts)
                          /\ Len(results.posts) <= num_posts

\* C4: on a successful result each counter is the number of emitted posts of
\* its class under the first-match policy, so every post is counted once.
C4_CountersClassifyPosts ==
    Succeeded =>
        /\ \A c \in {"posts_with_multiple_images", "posts_with_single_image",
                     "posts_with_no_images"} :
               results.stats[c] = NumOfClass(results.posts, c)
        /\ BucketSum(results.stats) = Len(results.posts)

C4_Witness ==
    /\ Succeeded
    /\ yielded = <<PostMulti, PostEmptyImages>>
    /\ results.stats = [total_posts |-> 2, posts_with_multiple_images |-> 1,
                        posts_with_single_image |-> 0, posts_with_no_images |-> 1]

\* C5: the routine never pulls more than N times from the collaborator; once
\* the N-th record is classified it returns without another pull, so what the
\* collaborator holds after its N-th record does not reach the result.
C5_AtMostNPulls ==
    /\ pulls <= num_posts
    /\ Len(yielded) <= num_posts
    /\ (Returning /\ Len(posts_data) = num_posts) =>
           (pulls = num_posts /\ results.success /\ results.error.tag = "none")

C5_Witness ==
    /\ Returning
    /\ num_posts > 1
    /\ gen.state = "open"
    /\ Len(yielded) = num_posts
    /\ pulls = num_posts
    /\ results.success

\* the result of one call computed from that call's inputs only: the records
\* before the first one whose text is None are classified; the call fails when
\* such a record was met or the collaborator raised
GoodPrefix ==
    LET bad == {i \in DOMAIN yielded : TextRaises(yielded[i])}
        n == IF bad = {} THEN Len(yielded)
             ELSE (CHOOSE i \in bad : \A j \in bad : i <= j) - 1
    IN SubSeq(yielded, 1, n)
RawCount(rs, c) == Cardinality({i \in DOMAIN rs : Bucket(rs[i]) = c})
ExpectedResult ==
    LET good == GoodPrefix
        typeError == Len(good) < Len(yielded)
        failed == typeError \/ gen.state = "raised"
    IN [success |-> ~failed,
        page |-> test_pages[page_idx],
        posts |-> IF failed THEN <<>> ELSE [i \in DOMAIN good |-> Project(good[i])],
        stats |-> [total_posts |-> IF failed THEN 0 ELSE Len(good),
                   posts_with_multiple_images |-> RawCount(good, "posts_with_multiple_images"),
                   posts_with_single_image |-> RawCount(good, "posts_with_single_image"),
                   posts_with_no_images |-> RawCount(good, "posts_with_no_images")],
        error |-> IF typeError THEN Str(TypeErrorMsg)
                  ELSE IF failed THEN Str(gen.msg) ELSE None]

\* C6: every page is processed, the output holds one result per page in the
\* order of the page list, and a page's result is what its own collaborator
\* sequence gives from fresh counters, whatever happened to earlier pages.
C6_PagesIndependent ==
    /\ [](/\ Len(all_results) <= Len(test_pages)
          /\ \A i \in DOMAIN all_results : all_results[i].page = test_pages[i]
          /\ Returning => results = ExpectedResult
          /\ pc = "exit" =>
                /\ Len(all_results) = Len(test_pages)
                /\ \E w \in DOMAIN out.stdout : out.stdout[w] = JsonDumps(all_results))
    /\ [][/\ \A i \in DOMAIN all_results : all_results'[i] = all_results[i]
          /\ Returning => all_results' = Append(all_results, results)]_vars

C6_Witness ==
    /\ pc = "exit"
    /\ Len(all_results) = 2
    /\ ~all_results[1].success
    /\ BucketSum(all_results[1].stats) > 0
    /\ all_results[2].success
    /\ Len(all_results[2].posts) > 0

\* C7: a record with keys missing or set to None never makes the call fail:
\* it is projected, appended and counted, and the result stays success=true.
C7_MissingFieldsNeverFail ==
    (Returning /\ ~CollaboratorRaised) =>
        /\ results.success
        /\ Len(results.posts) = Len(yielded)

\* C8: standard output is written once, with the JSON array, after every page
\* was processed; nothing is written to it before.
C8_StdoutOnlyAtEnd ==
    /\ pc # "exit" => out.stdout = <<>>
    /\ pc = "exit" =>
          /\ out.stdout = <<JsonDumps(all_results)>>
          /\ Len(all_results) = Len(test_pages)

C8_Witness ==
    /\ pc = "exit"
    /\ Len(all_results) = 2
    /\ \E i \in DOMAIN all_results : ~all_results[i].success
    /\ \E i \in DOMAIN all_results :
           all_results[i].stats.posts_with_multiple_images > 0
    /\ out.stderr > 0

\* C9: every call that is running ends in Succeeded or Failed, also with a
\* collaborator that never stops yielding, and the outcome it ended in is kept.
C9_CallTerminates ==
    /\ (pc = "loop") ~> (Succeeded \/ Failed)
    /\ [][/\ (Succeeded \/ Failed) =>
                (pc' = "main" /\ all_results' = Append(all_results, results))
          /\ \A i \in DOMAIN all_results :
                all_results'[i].success = all_results[i].success]_vars

C9_Witness ==
    /\ Succeeded
    /\ gen.state = "open"
    /\ Len(results.posts) = MaxN

\* C10: in every returned result success holds exactly when error is None; a
\* failed result carries the description of the caught fault, an empty posts
\* list and total_posts 0.
ResultShape(r) ==
    /\ r.success <=> r.error.tag = "none"
    /\ ~r.success => (r.error.tag = "str" /\ r.posts = <<>> /\ r.stats.total_posts = 0)
C10_SuccessXorError ==
    /\ \A i \in DOMAIN all_results : ResultShape(all_results[i])
    /\ Returning =>
          /\ ResultShape(results)
          /\ CollaboratorRaised => results.error = Str(gen.msg)
          /\ (~results.success /\ ~CollaboratorRaised) =>
                 results.error = Str(TypeErrorMsg)

C10_Witness ==
    /\ Failed
    /\ Len(posts_data) > 0
    /\ CollaboratorRaised
    /\ results.error = Str(TimeoutMsg)
====
